---- MODULE Spec2Model ----
(***************************************************************************)
(* Model of QueueService (the low-stock reservation queue) and of the      *)
(* calls the checkout layer makes on it.                                   *)
(*                                                                         *)
(* The service runs on a single-threaded event loop: the code between two  *)
(* awaits is one atomic step.  An awaited inventory call is two steps: the *)
(* database applies (or rejects) the call, and later the caller resumes.   *)
(* An awaited read whose result is not used is folded into the step that   *)
(* resumes after it.                                                       *)
(***************************************************************************)
EXTENDS Integers, Sequences, FiniteSets, TLC

Min(a, b) == IF a <= b THEN a ELSE b

Max(a, b) == IF a >= b THEN a ELSE b

\* ------------------------------------------------------------------ bounds
\* Users and products are interchangeable, so operations name them in a fixed
\* order of first appearance: a user (a product) is first named only after the
\* ones before it in UserSeq (ProductSeq).  "px" is the id of no product.
UserSeq == <<"u1", "u2", "u3">>
ProductSeq == <<"p1", "p2">>
Users == {UserSeq[i] : i \in 1 .. Len(UserSeq)}
DbProducts == {ProductSeq[i] : i \in 1 .. Len(ProductSeq)}
Products == DbProducts \cup {"px"}

\* slots for calls of the checkout layer and for ticks of the sweep
Clients == {1, 2, 3}
Sweeps == {1, 2}

\* every product starts with the same stock, from 1 to MaxStock
MaxStock == 1
Quantities == 1 .. MaxStock
\* the clock runs from 0 to MaxClock hold durations
MaxClock == 1
\* items pushed in a run of Spec and SpecOk, and in a run of SpecCrowd
MaxEntries == 2
MaxCrowd == 3
\* the stock of every product at the start of a run of SpecLine, and the
\* quantities asked for in it
LineStock == 3
LineQuantities == {1, 2}
\* the stocks at the start of a run of SpecDoor, and the quantities asked for
DoorStocks == {5, 6}
DoorQuantities == {0, 1}
\* inventory calls that reject in a run
MaxFailures == 1

\* ------------------------------------------------------- program constants
DEFAULT_QUEUE_SIZE == 10
DEFAULT_TIMEOUT == 15 * 60 * 1000
LOW_STOCK_THRESHOLD == 5
CLEANUP_INTERVAL == 60 * 1000

\* The clock advances in steps of one hold duration, so that an item is seen
\* before its expiresAt and exactly at it.
ClockStep == DEFAULT_TIMEOUT

EntryIds == 1 .. Max(MaxEntries, MaxCrowd)
QIds == 1 .. (Cardinality(DbProducts) + Cardinality(Clients) + Cardinality(Sweeps))

VARIABLES
  stock,        \* the product collection: the stock of each product document
  now,          \* Date.now()
  qobj,         \* the heap of ProductQueue objects
  pq,           \* productQueues: the Map's entries <<productId, queue>>, in insertion order
  uq,           \* userQueues: Map userId -> Set of productId
  clients,      \* joinQueue / leaveQueue / processSuccessfulPayment calls in flight
  sweeps,       \* cleanupExpiredItems ticks in flight
  nextId,       \* the next fresh queue item id
  named,        \* <<number of users named so far, number of products named so far>>
  failures,     \* number of inventory calls that have rejected
  removals,     \* history: per item id, the operations that spliced it out of a queue
  releaseCalls, \* history: per item id, the calls of releaseReservedStock for it
  released,     \* history: per item id, the releases the database applied
  timeouts,     \* history: per item id, the queue.timeout events emitted
  reserved,     \* history: per item id, whether the database applied its reserveStock
  committed,    \* history: per product, the quantity removed by successful payments
  stock0,       \* history: the stock each product started with
  ret,          \* what the last step returned to its caller, if it returned
  emitted       \* the events the last step emitted, in order

mem == <<qobj, pq, uq>>
hist == <<removals, releaseCalls, released, timeouts, reserved, committed, stock0>>
vars == <<stock, now, mem, clients, sweeps, nextId, named, failures, hist, ret, emitted>>

\* ------------------------------------------------------------------- values
NoItem == [id |-> 0, userId |-> "none", productId |-> "none", quantity |-> 0,
           expiresAt |-> 0]

FreeQueue == [productId |-> "none", maxQueueSize |-> 0, items |-> <<>>]

NoUserQueues == [has |-> FALSE, set |-> {}]

\* stock: product.stock as read at line 127; q: the productQueue the call
\* holds; item: the item the call pushed or removed; after: the items of the
\* queue right after the call spliced its item out; should: what
\* shouldActivateQueue found; had: whether the user had an item in the
\* product's queue when a join found the queue full.
IdleClient == [op |-> "idle", pc |-> "idle", userId |-> "none", productId |-> "none",
               quantity |-> 0, stock |-> 0, q |-> 0, item |-> NoItem, after |-> <<>>,
               should |-> FALSE, had |-> FALSE]

\* now: the tick's `now`; pos: the entries the Map iterator has passed;
\* productId, q: the entry the loop is at; cur: the expired item in hand;
\* rest: the expired items still to do; had: expiredItems.length > 0.
IdleSweep == [pc |-> "idle", now |-> 0, pos |-> 0, productId |-> "none", q |-> 0,
              cur |-> NoItem, rest |-> <<>>, had |-> FALSE]

\* op, result: the operation and what it returned; position: the position a
\* join returned; item: the item a join pushed, a leave or payment removed, or
\* a failing tick had in hand; had: whether the join's user had an item in the
\* product's queue when the join ran its checks; now: a tick's `now`; after:
\* the items of the queue right after a leave or payment spliced its item out;
\* asked: the call the step started, if it started a leave, a payment or a read;
\* wait: the estimatedWaitTime a join or a status read returned; expiresAt:
\* the expiresAt a status read returned; queues: what getUserQueues returned
\* (the product ids, without their order).
NoCall == [op |-> "none", userId |-> "", productId |-> "", queueId |-> 0]

Asked(op, userId, productId, queueId) ==
  [op |-> op, userId |-> userId, productId |-> productId, queueId |-> queueId]

NoRet == [op |-> "none", result |-> "none", position |-> 0, item |-> NoItem,
          had |-> FALSE, now |-> 0, after |-> <<>>, asked |-> NoCall,
          wait |-> 0, expiresAt |-> 0, queues |-> {}]

Returned(op, result) == [NoRet EXCEPT !.op = op, !.result = result]

Event(type, userId, productId, queueId, position, quantity) ==
  [type |-> type, userId |-> userId, productId |-> productId, queueId |-> queueId,
   position |-> position, quantity |-> quantity]

\* ------------------------------------------------------------ pure helpers
\* Array.prototype.findIndex over the callback's result for each item,
\* 1-based; 0 stands for -1.
RECURSIVE FirstTrue(_, _)
FirstTrue(flags, i) ==
  IF i > Len(flags) THEN 0
  ELSE IF flags[i] THEN i
  ELSE FirstTrue(flags, i + 1)

FindIndex(flags) == FirstTrue(flags, 1)

\* items.splice(i, 1); splice(-1, 1) removes the last item
Splice(items, i) ==
  LET j == IF i = 0 THEN Len(items) ELSE i IN
  [k \in 1 .. (Len(items) - 1) |-> IF k < j THEN items[k] ELSE items[k + 1]]

\* productQueues.get(productId): the queue object, 0 for undefined
MapIndex(m, productId) == FindIndex([i \in 1 .. Len(m) |-> m[i][1] = productId])

MapGet(m, productId) ==
  IF MapIndex(m, productId) = 0 THEN 0 ELSE m[MapIndex(m, productId)][2]

\* the duplicate check of line 142 left out
NotInQueue(u, userId, productId) == FALSE

isUserInQueue(u, userId, productId) ==
  IF u[userId].has THEN productId \in u[userId].set ELSE FALSE

\* lines 179-182
IndexAdd(u, userId, productId) ==
  [u EXCEPT ![userId] = [has |-> TRUE, set |-> @.set \cup {productId}]]

\* lines 238-244 and 368-374
IndexDelete(u, userId, productId) ==
  IF ~u[userId].has THEN u
  ELSE IF u[userId].set \ {productId} = {} THEN [u EXCEPT ![userId] = NoUserQueues]
  ELSE [u EXCEPT ![userId].set = @ \ {productId}]

\* an estimate that does not grow with the position
FlatWaitTime(position) == 2 * 60 * 1000

\* lines 428-430
calculateEstimatedWaitTime(position) == position * 2 * 60 * 1000

\* the queue sized without regard to the stock
initializeFixedSize(productId, stk) ==
  [productId |-> productId, maxQueueSize |-> DEFAULT_QUEUE_SIZE, items |-> <<>>]

initializeProductQueue(productId, stk) ==
  [productId |-> productId, maxQueueSize |-> Min(DEFAULT_QUEUE_SIZE, stk * 2),
   items |-> <<>>]

\* one queue.position.updated per item of the queue, in order
updateQueuePositions(queue) ==
  [i \in 1 .. Len(queue.items) |->
     Event("queue.position.updated", queue.items[i].userId, queue.items[i].productId,
           queue.items[i].id, i, 0)]

\* Queue objects that nothing refers to any more go back to the free pool.
Refs(m, cl, sw) ==
  {m[i][2] : i \in 1 .. Len(m)} \cup {cl[c].q : c \in Clients} \cup {sw[s].q : s \in Sweeps}

Collect(qo, m, cl, sw) ==
  [i \in QIds |-> IF i \in Refs(m, cl, sw) THEN qo[i] ELSE FreeQueue]

FreshQ(m, cl, sw) ==
  CHOOSE i \in QIds \ Refs(m, cl, sw) : \A j \in QIds \ Refs(m, cl, sw) : i <= j

\* The items of the queue registered for productId.
Items(qo, m, productId) ==
  IF MapGet(m, productId) = 0 THEN <<>> ELSE qo[MapGet(m, productId)].items

HasItem(qo, m, userId, productId) ==
  \E i \in 1 .. Len(Items(qo, m, productId)) : Items(qo, m, productId)[i].userId = userId

\* ------------------------------------------------------------------- Init
\* The service right after construction, over a product collection in which
\* every product has the same stock, one of `stocks`.
Start(stocks) ==
  /\ stock \in {[p \in DbProducts |-> k] : k \in stocks}
  /\ stock0 = stock
  /\ now = 0
  /\ qobj = [i \in QIds |-> FreeQueue]
  /\ pq = <<>>
  /\ uq = [u \in Users |-> NoUserQueues]
  /\ clients = [c \in Clients |-> IdleClient]
  /\ sweeps = [s \in Sweeps |-> IdleSweep]
  /\ nextId = 1
  /\ named = <<0, 0>>
  /\ failures = 0
  /\ removals = [i \in EntryIds |-> <<>>]
  /\ releaseCalls = [i \in EntryIds |-> 0]
  /\ released = [i \in EntryIds |-> 0]
  /\ timeouts = [i \in EntryIds |-> 0]
  /\ reserved = [i \in EntryIds |-> FALSE]
  /\ committed = [p \in DbProducts |-> 0]
  /\ ret = NoRet
  /\ emitted = <<>>

Init == Start(1 .. MaxStock)

\* ------------------------------------------------------------ environment
\* Time passes, up to `limit` hold durations.
Advance(limit) ==
  /\ now < limit * ClockStep
  /\ now' = now + ClockStep
  /\ ret' = NoRet
  /\ emitted' = <<>>
  /\ UNCHANGED <<stock, mem, clients, sweeps, nextId, named, failures, hist>>

Tick == Advance(MaxClock)

\* An inventory call rejects.
Rejects ==
  /\ failures < MaxFailures
  /\ failures' = failures + 1

\* The ids an operation may name, and `named` once it has named them.
Nameable(seq, n) == {seq[i] : i \in 1 .. Min(n + 1, Len(seq))}

Position(seq, x) == CHOOSE i \in 1 .. Len(seq) : seq[i] = x

MayName(userId, productId) ==
  /\ userId \in Nameable(UserSeq, named[1])
  /\ productId \in DbProducts => productId \in Nameable(ProductSeq, named[2])

Naming(userId, productId) ==
  <<Max(named[1], Position(UserSeq, userId)),
    IF productId \in DbProducts THEN Max(named[2], Position(ProductSeq, productId))
    ELSE named[2]>>

InFlight ==
  Cardinality({c \in Clients : clients[c].op # "idle"})
    + Cardinality({s \in Sweeps : sweeps[s].pc # "idle"})

\* Calls are interchangeable too: a new call takes the first idle slot.
FreeClient(c) ==
  /\ clients[c].op = "idle"
  /\ \A d \in Clients : d < c => clients[d].op # "idle"

FreeSweep(s) ==
  /\ sweeps[s].pc = "idle"
  /\ \A d \in Sweeps : d < s => sweeps[d].pc # "idle"

\* Joins are started only while an item id is left for them.
JoinBudget(maxEntries) ==
  nextId + Cardinality({c \in Clients : clients[c].pc \in {"found", "product", "route"}})
    <= maxEntries

\* ------------------------------------------------------------- joinQueue
\* line 127: the product document is read; the call resumes later with it.
StartJoin(c, userId, productId, quantity, maxEntries) ==
  /\ FreeClient(c)
  /\ JoinBudget(maxEntries)
  /\ MayName(userId, productId)
  /\ named' = Naming(userId, productId)
  /\ IF productId \in DbProducts
     THEN /\ clients' = [clients EXCEPT ![c] =
                 [IdleClient EXCEPT !.op = "join", !.pc = "found", !.userId = userId,
                                    !.productId = productId, !.quantity = quantity,
                                    !.stock = stock[productId]]]
          /\ ret' = NoRet
     ELSE /\ clients' = clients
          /\ ret' = Returned("join", "NotFound")
  /\ emitted' = <<>>
  /\ UNCHANGED <<stock, now, mem, sweeps, nextId, failures, hist>>

\* line 127 throws: caught at line 206.
StartJoinFail(c, userId, productId, quantity, maxEntries) ==
  /\ Rejects
  /\ FreeClient(c)
  /\ JoinBudget(maxEntries)
  /\ MayName(userId, productId)
  /\ named' = Naming(userId, productId)
  /\ ret' = Returned("join", "Failed")
  /\ emitted' = <<>>
  /\ UNCHANGED <<stock, now, mem, clients, sweeps, nextId, hist>>

\* the stock check of line 135 left out
NeverShort(stk, quantity) == FALSE

\* line 135
InsufficientStock(stk, quantity) == stk < quantity

\* the capacity check of line 154 left out
NeverFull(queue) == FALSE

\* line 154
QueueIsFull(queue) == Len(queue.items) >= queue.maxQueueSize

\* lines 163-174
NewItem(id, userId, productId, quantity, time, processingTimeout) ==
  [id |-> id, userId |-> userId, productId |-> productId, quantity |-> quantity,
   expiresAt |-> time + processingTimeout]

\* items.unshift(item) in the place of line 176
Unshift(items, item) == <<item>> \o items

\* line 176: productQueue.items.push(queueItem)
Push(items, item) == Append(items, item)

\* lines 128-184, one synchronous block: the checks and then either a return,
\* or the call of markProductUnavailable (line 155), or the push, the index
\* update and the call of reserveStock.
JoinCheck(c) ==
  LET t == clients[c]
      had == HasItem(qobj, pq, t.userId, t.productId)
      done(result) == [Returned("join", result) EXCEPT !.had = had]
      found == MapGet(pq, t.productId)
      qid == IF found # 0 THEN found ELSE FreshQ(pq, clients, sweeps)
      queue == IF found # 0 THEN qobj[found]
               ELSE initializeProductQueue(t.productId, t.stock)
      pq1 == IF found # 0 THEN pq ELSE Append(pq, <<t.productId, qid>>)
      item == NewItem(nextId, t.userId, t.productId, t.quantity, now, DEFAULT_TIMEOUT)
      idle == [clients EXCEPT ![c] = IdleClient]
  IN
  /\ t.op = "join" /\ t.pc = "found"
  /\ emitted' = <<>>
  /\ UNCHANGED <<stock, now, sweeps, named, failures, hist>>
  /\ IF InsufficientStock(t.stock, t.quantity)
     THEN /\ ret' = done("InsufficientStock")
          /\ clients' = idle
          /\ qobj' = Collect(qobj, pq, idle, sweeps)
          /\ UNCHANGED <<pq, uq, nextId>>
     ELSE IF isUserInQueue(uq, t.userId, t.productId)
     THEN /\ ret' = done("AlreadyQueued")
          /\ clients' = idle
          /\ qobj' = Collect(qobj, pq, idle, sweeps)
          /\ UNCHANGED <<pq, uq, nextId>>
     ELSE IF QueueIsFull(queue)
     THEN /\ ret' = NoRet
          /\ clients' = [clients EXCEPT ![c] = [t EXCEPT !.pc = "full", !.q = qid,
                                                          !.had = had]]
          /\ pq' = pq1
          /\ qobj' = [qobj EXCEPT ![qid] = queue]
          /\ UNCHANGED <<uq, nextId>>
     ELSE /\ ret' = NoRet
          /\ clients' = [clients EXCEPT ![c] = [t EXCEPT !.pc = "reserve", !.q = qid,
                                                          !.item = item]]
          /\ pq' = pq1
          /\ qobj' = [qobj EXCEPT ![qid] = [queue EXCEPT !.items = Push(@, item)]]
          /\ uq' = IndexAdd(uq, t.userId, t.productId)
          /\ nextId' = nextId + 1

\* lines 155-160: the join resumes after markProductUnavailable and returns
\* that the product is unavailable.
JoinFull(c) ==
  LET t == clients[c]
      idle == [clients EXCEPT ![c] = IdleClient]
  IN
  /\ t.op = "join" /\ t.pc = "full"
  /\ clients' = idle
  /\ qobj' = Collect(qobj, pq, idle, sweeps)
  /\ ret' = [Returned("join", "QueueFull") EXCEPT !.had = t.had]
  /\ emitted' = <<>>
  /\ UNCHANGED <<stock, now, pq, uq, sweeps, nextId, named, failures, hist>>

\* reserveStock, lines 436-439: the database applies the decrement.
JoinReserveDb(c) ==
  LET t == clients[c] IN
  /\ t.op = "join" /\ t.pc = "reserve"
  /\ stock' = [stock EXCEPT ![t.productId] = @ - t.quantity]
  /\ reserved' = [reserved EXCEPT ![t.item.id] = TRUE]
  /\ clients' = [clients EXCEPT ![c].pc = "reserved"]
  /\ ret' = NoRet
  /\ emitted' = <<>>
  /\ UNCHANGED <<now, mem, sweeps, nextId, named, failures, removals, releaseCalls,
                 released, timeouts, committed, stock0>>

\* reserveStock rejects: caught at line 206, the pushed item stays.
JoinReserveFail(c) ==
  LET t == clients[c]
      idle == [clients EXCEPT ![c] = IdleClient]
  IN
  /\ Rejects
  /\ t.op = "join" /\ t.pc = "reserve"
  /\ clients' = idle
  /\ qobj' = Collect(qobj, pq, idle, sweeps)
  /\ ret' = [Returned("join", "Failed") EXCEPT !.item = t.item]
  /\ emitted' = <<>>
  /\ UNCHANGED <<stock, now, pq, uq, sweeps, nextId, named, hist>>

\* lines 186-205: the position is the queue's length when the call resumes.
\* For a join called by handleQueuedCheckout (payment.controller.ts line 151)
\* the checkout goes on to its transaction record.
JoinReturn(c) ==
  LET t == clients[c]
      position == Len(qobj[t.q].items)
      idle == [clients EXCEPT ![c] =
                 IF t.should
                 THEN [IdleClient EXCEPT !.op = "checkout", !.pc = "record",
                                         !.userId = t.userId, !.productId = t.productId,
                                         !.quantity = t.quantity, !.item = t.item,
                                         !.should = TRUE]
                 ELSE IdleClient]
  IN
  /\ t.op = "join" /\ t.pc = "reserved"
  /\ clients' = idle
  /\ qobj' = Collect(qobj, pq, idle, sweeps)
  /\ ret' = [Returned("join", "Joined")
               EXCEPT !.item = t.item, !.position = position,
                      !.wait = calculateEstimatedWaitTime(position)]
  /\ emitted' = <<Event("queue.joined", t.userId, t.productId, t.item.id, position, 0)>>
  /\ UNCHANGED <<stock, now, pq, uq, sweeps, nextId, named, failures, hist>>

\* ------------------------------------- leaveQueue, processSuccessfulPayment
\* findIndex of line 227 without the queueId test of line 229
AnyQueueId(items, userId, queueId) ==
  FindIndex([i \in 1 .. Len(items) |-> items[i].userId = userId])

\* lines 227-229; queueId 0 stands for an omitted queueId
LeaveIndex(items, userId, queueId) ==
  FindIndex([i \in 1 .. Len(items) |->
               items[i].userId = userId /\ (queueId = 0 \/ items[i].id = queueId)])

\* updateActualStock, lines 452-457
updateActualStock(stk, productId, quantity) == stk

\* lines 275-287: what processSuccessfulPayment emits once leaveQueue has
\* returned (whatever it returned).
PaymentProcessed(t) ==
  <<Event("payment.processed", t.userId, t.productId, 0, 0, t.quantity)>>

\* The return of leaveQueue with `result`, and for a payment the rest of
\* processSuccessfulPayment after it (lines 275-289).
LeaveDone(c, result, events) ==
  LET t == clients[c]
      idle == [clients EXCEPT ![c] = IdleClient]
  IN
  /\ clients' = idle
  /\ qobj' = Collect(qobj, pq, idle, sweeps)
  /\ ret' = [Returned(t.op, IF t.op = "pay" THEN "true" ELSE result)
               EXCEPT !.item = t.item, !.after = t.after]
  /\ emitted' = IF t.op = "pay" THEN events \o PaymentProcessed(t) ELSE events
  /\ stock' = IF t.op = "pay" THEN updateActualStock(stock, t.productId, t.quantity)
              ELSE stock
  /\ committed' = IF t.op = "pay"
                  THEN [committed EXCEPT ![t.productId] = @ + t.item.quantity]
                  ELSE committed

\* lines 224-236 (for a payment, entered from line 273): one synchronous
\* block up to the return of false or the call of releaseReservedStock.  A
\* payment whose leaveQueue returned false resumes later, after the awaits
\* of lines 273 and 275.
StartLeave(c, op, userId, productId, queueId, quantity) ==
  LET found == MapGet(pq, productId)
      items == qobj[found].items
      idx == IF found = 0 THEN 0 ELSE LeaveIndex(items, userId, queueId)
      t == [IdleClient EXCEPT !.op = op, !.userId = userId, !.productId = productId,
                              !.quantity = quantity]
  IN
  /\ FreeClient(c)
  /\ MayName(userId, productId)
  /\ named' = Naming(userId, productId)
  /\ UNCHANGED <<now, pq, uq, sweeps, nextId, failures, released, timeouts, reserved,
                 committed, stock0>>
  /\ IF idx = 0
     THEN /\ ret' = IF op = "pay"
                    THEN [NoRet EXCEPT !.asked = Asked(op, userId, productId, queueId)]
                    ELSE [Returned(op, "false")
                            EXCEPT !.asked = Asked(op, userId, productId, queueId)]
          /\ emitted' = <<>>
          /\ clients' = IF op = "pay"
                        THEN [clients EXCEPT ![c] = [t EXCEPT !.pc = "pay"]]
                        ELSE clients
          /\ UNCHANGED <<stock, qobj, removals, releaseCalls>>
     ELSE /\ ret' = [NoRet EXCEPT !.asked = Asked(op, userId, productId, queueId)]
          /\ emitted' = <<>>
          /\ clients' = [clients EXCEPT ![c] = [t EXCEPT !.pc = "release", !.q = found,
                                                          !.item = items[idx],
                                                          !.after = Splice(items, idx)]]
          /\ qobj' = [qobj EXCEPT ![found].items = Splice(items, idx)]
          /\ removals' = [removals EXCEPT ![items[idx].id] = Append(@, op)]
          /\ releaseCalls' = [releaseCalls EXCEPT ![items[idx].id] = @ + 1]
          /\ UNCHANGED stock

\* lines 275-285, for a payment whose leaveQueue found no item.
PayReturn(c) ==
  LET t == clients[c] IN
  /\ t.op = "pay" /\ t.pc = "pay"
  /\ clients' = [clients EXCEPT ![c] = IdleClient]
  /\ ret' = [Returned("pay", "true")
               EXCEPT !.asked = Asked("pay", t.userId, t.productId, 0)]
  /\ emitted' = PaymentProcessed(t)
  /\ stock' = updateActualStock(stock, t.productId, t.quantity)
  /\ UNCHANGED <<now, mem, sweeps, nextId, named, failures, hist>>

\* releaseReservedStock, lines 446-449: the database applies the increment.
LeaveReleaseDb(c) ==
  LET t == clients[c] IN
  /\ t.op \in {"leave", "pay"} /\ t.pc = "release"
  /\ stock' = [stock EXCEPT ![t.productId] = @ + t.item.quantity]
  /\ released' = [released EXCEPT ![t.item.id] = @ + 1]
  /\ clients' = [clients EXCEPT ![c].pc = "released"]
  /\ ret' = NoRet
  /\ emitted' = <<>>
  /\ UNCHANGED <<now, mem, sweeps, nextId, named, failures, removals, releaseCalls,
                 timeouts, reserved, committed, stock0>>

\* releaseReservedStock rejects: caught at line 260, leaveQueue returns false.
LeaveReleaseFail(c) ==
  LET t == clients[c] IN
  /\ Rejects
  /\ t.op \in {"leave", "pay"} /\ t.pc = "release"
  /\ LeaveDone(c, "false", <<>>)
  /\ UNCHANGED <<now, pq, uq, sweeps, nextId, named, removals, releaseCalls, released,
                 timeouts, reserved, stock0>>

\* lines 238-253: the index update, the position updates and queue.left
LeaveEvents(t, queue) ==
  updateQueuePositions(queue)
    \o <<Event("queue.left", t.userId, t.productId, t.item.id, 0, 0)>>

\* lines 238-255: after the release, the index update, the position updates,
\* queue.left and the call of checkProductAvailability, whose read (line 467)
\* the call awaits.  The call does not use its productQueue again.
LeaveReleased(c) ==
  LET t == clients[c]
      waiting == [clients EXCEPT ![c] = [t EXCEPT !.pc = "check", !.q = 0]]
  IN
  /\ t.op \in {"leave", "pay"} /\ t.pc = "released"
  /\ uq' = IndexDelete(uq, t.userId, t.productId)
  /\ clients' = waiting
  /\ qobj' = Collect(qobj, pq, waiting, sweeps)
  /\ ret' = NoRet
  /\ emitted' = LeaveEvents(t, qobj[t.q])
  /\ UNCHANGED <<stock, now, pq, sweeps, nextId, named, failures, hist>>

\* lines 255-259: the read of line 467 is answered and leaveQueue returns
\* true; a payment goes on to lines 275-285.
LeaveChecked(c) ==
  LET t == clients[c] IN
  /\ t.op \in {"leave", "pay"} /\ t.pc = "check"
  /\ LeaveDone(c, "true", <<>>)
  /\ UNCHANGED <<now, pq, uq, sweeps, nextId, named, failures, removals, releaseCalls,
                 released, timeouts, reserved, stock0>>

\* the read at line 467 rejects: caught at line 260, leaveQueue returns
\* false; a payment goes on to lines 275-285.
LeaveCheckFail(c) ==
  LET t == clients[c] IN
  /\ Rejects
  /\ t.op \in {"leave", "pay"} /\ t.pc = "check"
  /\ LeaveDone(c, "false", <<>>)
  /\ UNCHANGED <<now, pq, uq, sweeps, nextId, named, removals, releaseCalls, released,
                 timeouts, reserved, stock0>>

\* -------------------------------------------------- cleanupExpiredItems
\* A tick runs synchronously from one await to the next.  The memory it works
\* on is threaded through the run as a record w:
\*   qobj, pq, sweeps, removals, releaseCalls  as the variables,
\*   ev    the events emitted during the run,
\*   done  whether the tick has returned.

\* line 356
Expired(item, time) == item.expiresAt <= time

\* lines 355-357: items.filter
ExpiredItems(items, time) == SelectSeq(items, LAMBDA item : Expired(item, time))

\* lines 360-362
SweepIndex(items, id) == FindIndex([i \in 1 .. Len(items) |-> items[i].id = id])

\* the test of line 363 left out
AlwaysFound(itemIndex) == TRUE

\* line 363
SweepFound(itemIndex) == itemIndex # 0

\* productQueues.delete(productId) at line 392.  A Map iterator in progress
\* keeps its place: the entries before it shift down by one.
MapDelete(w, productId) ==
  LET k == MapIndex(w.pq, productId) IN
  IF k = 0 THEN w
  ELSE [w EXCEPT
          !.pq = Splice(w.pq, k),
          !.sweeps = [s \in Sweeps |->
                        IF w.sweeps[s].pc # "idle" /\ w.sweeps[s].pos >= k
                        THEN [w.sweeps[s] EXCEPT !.pos = @ - 1]
                        ELSE w.sweeps[s]]]

RECURSIVE SweepItems(_, _), SweepNext(_, _)

\* lines 391-393, then the next iteration of the loop at line 354
SweepAfter(w, s) ==
  LET t == w.sweeps[s] IN
  SweepNext(IF Len(w.qobj[t.q].items) = 0 THEN MapDelete(w, t.productId) ELSE w, s)

\* lines 359-389: the loop over expiredItems, up to the next await
SweepItems(w, s) ==
  LET t == w.sweeps[s]
      items == w.qobj[t.q].items
  IN
  IF t.rest = <<>>
  THEN IF t.had
       THEN [w EXCEPT !.ev = @ \o updateQueuePositions(w.qobj[t.q]),
                      !.sweeps[s].pc = "check"]
       ELSE SweepAfter(w, s)
  ELSE LET expiredItem == Head(t.rest)
           itemIndex == SweepIndex(items, expiredItem.id)
       IN
       IF SweepFound(itemIndex)
       THEN [w EXCEPT
               !.qobj[t.q].items = Splice(items, itemIndex),
               !.removals[expiredItem.id] = Append(@, "sweep"),
               !.releaseCalls[expiredItem.id] = @ + 1,
               !.sweeps[s] = [t EXCEPT !.pc = "release", !.cur = expiredItem,
                                        !.rest = Tail(t.rest)]]
       ELSE SweepItems([w EXCEPT !.sweeps[s].rest = Tail(t.rest)], s)

\* line 354: the Map iterator yields its next entry, or the loop ends
SweepNext(w, s) ==
  LET t == w.sweeps[s] IN
  IF t.pos >= Len(w.pq)
  THEN [w EXCEPT !.sweeps[s] = IdleSweep, !.done = TRUE]
  ELSE LET k == t.pos + 1
           expiredItems == ExpiredItems(w.qobj[w.pq[k][2]].items, t.now)
       IN
       SweepItems([w EXCEPT !.sweeps[s] =
                     [t EXCEPT !.pos = k, !.productId = w.pq[k][1], !.q = w.pq[k][2],
                               !.cur = NoItem, !.rest = expiredItems,
                               !.had = Len(expiredItems) > 0]], s)

World == [qobj |-> qobj, pq |-> pq, sweeps |-> sweeps, removals |-> removals,
          releaseCalls |-> releaseCalls, ev |-> <<>>, done |-> FALSE]

\* The variables after a synchronous run of a tick that ended in memory w;
\* time is the tick's `now`.
SweepCommit(w, time) ==
  /\ pq' = w.pq
  /\ sweeps' = w.sweeps
  /\ qobj' = Collect(w.qobj, w.pq, clients, w.sweeps)
  /\ removals' = w.removals
  /\ releaseCalls' = w.releaseCalls
  /\ emitted' = w.ev
  /\ ret' = IF w.done THEN [Returned("sweep", "done") EXCEPT !.now = time] ELSE NoRet

\* The tick's promise rejects: logged at lines 492-494 (or by the scheduler).
SweepAbort(s) ==
  LET t == sweeps[s]
      idle == [sweeps EXCEPT ![s] = IdleSweep]
  IN
  /\ Rejects
  /\ sweeps' = idle
  /\ qobj' = Collect(qobj, pq, clients, idle)
  /\ emitted' = <<>>
  /\ ret' = [Returned("sweep", "failed") EXCEPT !.now = t.now, !.item = t.cur]
  /\ UNCHANGED <<stock, now, pq, uq, clients, nextId, named, hist>>

\* lines 351-354: a tick starts (from the interval timer or from the cron job)
StartSweep(s) ==
  /\ FreeSweep(s)
  /\ SweepCommit(SweepNext([World EXCEPT !.sweeps[s] =
                               [IdleSweep EXCEPT !.pc = "start", !.now = now]], s), now)
  /\ UNCHANGED <<stock, now, uq, clients, nextId, named, failures, released, timeouts,
                 reserved, committed, stock0>>

\* releaseReservedStock at line 366: the database applies the increment.
SweepReleaseDb(s) ==
  LET t == sweeps[s] IN
  /\ t.pc = "release"
  /\ stock' = [stock EXCEPT ![t.productId] = @ + t.cur.quantity]
  /\ released' = [released EXCEPT ![t.cur.id] = @ + 1]
  /\ sweeps' = [sweeps EXCEPT ![s].pc = "released"]
  /\ ret' = NoRet
  /\ emitted' = <<>>
  /\ UNCHANGED <<now, mem, clients, nextId, named, failures, removals, releaseCalls,
                 timeouts, reserved, committed, stock0>>

\* releaseReservedStock at line 366 rejects: nothing in the loop catches it.
SweepReleaseFail(s) ==
  /\ sweeps[s].pc = "release"
  /\ SweepAbort(s)

\* lines 368-382 for the item just released, then on with the loop
SweepReleased(s) ==
  LET t == sweeps[s]
      timeout == Event("queue.timeout", t.cur.userId, t.productId, t.cur.id, 0, 0)
  IN
  /\ t.pc = "released"
  /\ uq' = IndexDelete(uq, t.cur.userId, t.productId)
  /\ timeouts' = [timeouts EXCEPT ![t.cur.id] = @ + 1]
  /\ SweepCommit(SweepItems([World EXCEPT !.ev = <<timeout>>], s), t.now)
  /\ UNCHANGED <<stock, now, clients, nextId, named, failures, released, reserved,
                 committed, stock0>>

\* line 388 resolves; lines 391-393 and on with the loop
SweepChecked(s) ==
  /\ sweeps[s].pc = "check"
  /\ SweepCommit(SweepAfter(World, s), sweeps[s].now)
  /\ UNCHANGED <<stock, now, uq, clients, nextId, named, failures, released, timeouts,
                 reserved, committed, stock0>>

\* the read at line 467 rejects: nothing in the loop catches it.
SweepCheckFail(s) ==
  /\ sweeps[s].pc = "check"
  /\ SweepAbort(s)

\* ------------------------------------------------------------------- reads
\* the length of the queue in the place of the item's index, as at line 199
LengthAsPosition(items, userId) ==
  IF \E i \in 1 .. Len(items) : items[i].userId = userId THEN Len(items) ELSE 0

\* lines 315 and 320-321: find and findIndex by userId
StatusIndex(items, userId) ==
  FindIndex([i \in 1 .. Len(items) |-> items[i].userId = userId])

\* getQueueStatus, lines 300-328
getQueueStatus(userId, productId) ==
  LET found == MapGet(pq, productId)
      items == qobj[found].items
      position == IF found = 0 THEN 0 ELSE StatusIndex(items, userId)
      asked == Asked("status", userId, productId, 0)
  IN
  /\ ret' = IF position = 0
            THEN [Returned("status", "false") EXCEPT !.asked = asked]
            ELSE [Returned("status", "true")
                    EXCEPT !.asked = asked, !.position = position,
                           !.wait = calculateEstimatedWaitTime(position),
                           !.expiresAt = items[position].expiresAt]
  /\ emitted' = <<>>
  /\ UNCHANGED <<stock, now, mem, clients, sweeps, nextId, named, failures, hist>>

\* getUserQueues, lines 333-336
getUserQueues(userId) ==
  /\ ret' = [Returned("queues", "done")
               EXCEPT !.asked = Asked("queues", userId, "", 0),
                      !.queues = IF uq[userId].has THEN uq[userId].set ELSE {}]
  /\ emitted' = <<>>
  /\ UNCHANGED <<stock, now, mem, clients, sweeps, nextId, named, failures, hist>>

\* The reads of the status endpoints.
Reads(U, P) ==
  \/ \E u \in U, p \in P : getQueueStatus(u, p)
  \/ \E u \in U : getUserQueues(u)

\* ---------------------------------------------------------------- checkout
\* a threshold that the stock has to be under
UnderThreshold(productId, stk) ==
  IF productId \in DbProducts THEN stk[productId] < LOW_STOCK_THRESHOLD ELSE FALSE

\* lines 342-343, over the product collection stk
shouldActivateQueue(productId, stk) ==
  IF productId \in DbProducts THEN stk[productId] <= LOW_STOCK_THRESHOLD ELSE FALSE

\* shouldActivateQueue called by itself, line 342: the product document is
\* read, and the call resumes later with what the read found.
StartShould(c, productId) ==
  /\ FreeClient(c)
  /\ clients' = [clients EXCEPT ![c] =
         [IdleClient EXCEPT !.op = "should", !.pc = "read", !.productId = productId,
                            !.should = shouldActivateQueue(productId, stock)]]
  /\ ret' = NoRet
  /\ emitted' = <<>>
  /\ UNCHANGED <<stock, now, mem, sweeps, nextId, named, failures, hist>>

\* lines 342-343: the call resumes and returns what it found.
ShouldReturn(c) ==
  LET t == clients[c] IN
  /\ t.op = "should" /\ t.pc = "read"
  /\ clients' = [clients EXCEPT ![c] = IdleClient]
  /\ ret' = [Returned("should", IF t.should THEN "true" ELSE "false")
               EXCEPT !.asked = Asked("should", "", t.productId, 0)]
  /\ emitted' = <<>>
  /\ UNCHANGED <<stock, now, mem, sweeps, nextId, named, failures, hist>>

\* payment.controller.ts, initiateCheckout lines 51-78: the request is
\* validated and the product document is read.
StartCheckout(c, userId, productId, quantity, maxEntries) ==
  /\ FreeClient(c)
  /\ JoinBudget(maxEntries)
  /\ MayName(userId, productId)
  /\ named' = Naming(userId, productId)
  /\ IF quantity <= 0 \/ quantity > 10
     THEN /\ clients' = clients
          /\ ret' = Returned("checkout", "BadRequest")
     ELSE IF productId \notin DbProducts
     THEN /\ clients' = clients
          /\ ret' = Returned("checkout", "NotFound")
     ELSE /\ clients' = [clients EXCEPT ![c] =
                 [IdleClient EXCEPT !.op = "checkout", !.pc = "product",
                                    !.userId = userId, !.productId = productId,
                                    !.quantity = quantity, !.stock = stock[productId]]]
          /\ ret' = NoRet
  /\ emitted' = <<>>
  /\ UNCHANGED <<stock, now, mem, sweeps, nextId, failures, hist>>

\* lines 80-81 and product.schema.ts 341-343: the product document is read
\* again, for shouldActivateQueue.
CheckoutShould(c) ==
  LET t == clients[c] IN
  /\ t.op = "checkout" /\ t.pc = "product"
  /\ clients' = [clients EXCEPT ![c] =
         [t EXCEPT !.pc = "route", !.should = shouldActivateQueue(t.productId, stock)]]
  /\ ret' = NoRet
  /\ emitted' = <<>>
  /\ UNCHANGED <<stock, now, mem, sweeps, nextId, named, failures, hist>>

\* lines 83-87: handleQueuedCheckout calls joinQueue (line 151), whose line
\* 127 reads the product document; handleRegularCheckout checks the stock
\* read at line 75 (lines 253-258) and calls initiateCardPayment (line 263).
CheckoutRoute(c) ==
  LET t == clients[c] IN
  /\ t.op = "checkout" /\ t.pc = "route"
  /\ IF t.should
     THEN /\ clients' = [clients EXCEPT ![c] =
                 [IdleClient EXCEPT !.op = "join", !.pc = "found", !.userId = t.userId,
                                    !.productId = t.productId, !.quantity = t.quantity,
                                    !.stock = stock[t.productId], !.should = TRUE]]
          /\ ret' = NoRet
     ELSE IF t.stock < t.quantity
     THEN /\ clients' = [clients EXCEPT ![c] = IdleClient]
          /\ ret' = Returned("checkout", "Conflict")
     ELSE /\ clients' = [clients EXCEPT ![c].pc = "gateway"]
          /\ ret' = NoRet
  /\ emitted' = <<>>
  /\ UNCHANGED <<stock, now, mem, sweeps, nextId, named, failures, hist>>

\* handleRegularCheckout, lines 263-282: initiateCardPayment resolves and
\* createTransactionRecord is called.
RegularInitiated(c) ==
  LET t == clients[c] IN
  /\ t.op = "checkout" /\ t.pc = "gateway"
  /\ clients' = [clients EXCEPT ![c].pc = "ledger"]
  /\ ret' = NoRet
  /\ emitted' = <<>>
  /\ UNCHANGED <<stock, now, mem, sweeps, nextId, named, failures, hist>>

\* handleRegularCheckout, lines 282-310: createTransactionRecord resolves and
\* the checkout returns the checkout url.
RegularRecorded(c) ==
  LET t == clients[c] IN
  /\ t.op = "checkout" /\ t.pc = "ledger"
  /\ clients' = [clients EXCEPT ![c] = IdleClient]
  /\ ret' = Returned("checkout", "Regular")
  /\ emitted' = <<>>
  /\ UNCHANGED <<stock, now, mem, sweeps, nextId, named, failures, hist>>

\* handleRegularCheckout, lines 311-325: initiateCardPayment (line 263) or
\* createTransactionRecord (line 282) throws; the catch logs and throws the
\* error of the request.
RegularFailed(c) ==
  LET t == clients[c] IN
  /\ t.op = "checkout" /\ t.pc \in {"gateway", "ledger"}
  /\ clients' = [clients EXCEPT ![c] = IdleClient]
  /\ ret' = Returned("checkout", "RegularFailed")
  /\ emitted' = <<>>
  /\ UNCHANGED <<stock, now, mem, sweeps, nextId, named, failures, hist>>

\* handleQueuedCheckout, lines 171-197: createTransactionRecord resolves.
CheckoutRecorded(c) ==
  LET t == clients[c] IN
  /\ t.op = "checkout" /\ t.pc = "record"
  /\ clients' = [clients EXCEPT ![c].pc = "payment"]
  /\ ret' = NoRet
  /\ emitted' = <<>>
  /\ UNCHANGED <<stock, now, mem, sweeps, nextId, named, failures, hist>>

\* handleQueuedCheckout, lines 199-229: initiateCardPayment resolves and the
\* checkout returns the checkout url and the queue info.
CheckoutInitiated(c) ==
  LET t == clients[c] IN
  /\ t.op = "checkout" /\ t.pc = "payment"
  /\ clients' = [clients EXCEPT ![c] = IdleClient]
  /\ ret' = [Returned("checkout", "Initiated") EXCEPT !.item = t.item]
  /\ emitted' = <<>>
  /\ UNCHANGED <<stock, now, mem, sweeps, nextId, named, failures, hist>>

\* handleQueuedCheckout, lines 230-244: createTransactionRecord (line 174) or
\* initiateCardPayment (line 199) throws; the catch logs and throws the error
\* of the request.
CheckoutFailed(c) ==
  LET t == clients[c] IN
  /\ t.op = "checkout" /\ t.pc \in {"record", "payment"}
  /\ clients' = [clients EXCEPT ![c] = IdleClient]
  /\ ret' = [Returned("checkout", "Failed") EXCEPT !.item = t.item]
  /\ emitted' = <<>>
  /\ UNCHANGED <<stock, now, mem, sweeps, nextId, named, failures, hist>>

\* ------------------------------------------------------------ specifications
\* Calls from the checkout layer, with users from U, product ids from P,
\* quantities from N, on the call slots C, pushing at most e items; at most
\* as many calls and ticks are in flight as there are slots in C.
Calls(C, U, P, N, e) ==
  /\ InFlight < Cardinality(C)
  /\ \/ \E c \in C, u \in U, p \in P, n \in N : StartJoin(c, u, p, n, e)
     \/ \E c \in C, u \in U, p \in P \cap DbProducts, i \in 0 .. e :
           StartLeave(c, "leave", u, p, i, 0)
     \/ \E c \in C, u \in U, p \in P \cap DbProducts, n \in N :
           StartLeave(c, "pay", u, p, 0, n)

\* The inventory answers a call, or a call resumes after its await.
Resume ==
  \/ \E c \in Clients : JoinCheck(c)
  \/ \E c \in Clients : JoinReserveDb(c)
  \/ \E c \in Clients : JoinReturn(c)
  \/ \E c \in Clients : LeaveReleaseDb(c)
  \/ \E c \in Clients : LeaveReleased(c)
  \/ \E c \in Clients : LeaveChecked(c)

\* A payment that removed no item resumes.
PayResume == \E c \in Clients : PayReturn(c)

\* A join that found the queue full resumes.
FullResume == \E c \in Clients : JoinFull(c)

\* The inventory rejects a call of the checkout layer.
Reject(C, U, P, N, e) ==
  \/ /\ InFlight < Cardinality(C)
     /\ \E c \in C, u \in U, p \in P \cap DbProducts, n \in N :
           StartJoinFail(c, u, p, n, e)
  \/ \E c \in Clients : JoinReserveFail(c)
  \/ \E c \in Clients : LeaveReleaseFail(c)
  \/ \E c \in Clients : LeaveCheckFail(c)

\* The expiry sweep, on the tick slots S; at most as many calls and ticks are
\* in flight as there are slots in S.
Sweep(S) ==
  \/ /\ InFlight < Cardinality(S)
     /\ \E s \in S : StartSweep(s)
  \/ \E s \in Sweeps : SweepReleaseDb(s)
  \/ \E s \in Sweeps : SweepReleased(s)
  \/ \E s \in Sweeps : SweepChecked(s)

\* The inventory rejects a call of the sweep.
SweepReject ==
  \/ \E s \in Sweeps : SweepReleaseFail(s)
  \/ \E s \in Sweeps : SweepCheckFail(s)

\* Two users on one product (and the id of no product), two concurrent
\* calls, two overlapping ticks; every inventory call succeeds.
NextOk ==
  \/ Tick
  \/ Calls({1, 2}, {"u1", "u2"}, {"p1", "px"}, Quantities, MaxEntries)
  \/ Resume
  \/ PayResume
  \/ Sweep(Sweeps)

SpecOk == Init /\ [][NextOk]_vars

\* The same, and inventory calls may reject.
Next ==
  \/ NextOk
  \/ Reject({1, 2}, {"u1", "u2"}, {"p1", "px"}, Quantities, MaxEntries)
  \/ SweepReject

Spec == Init /\ [][Next]_vars

\* Three users crowd one product with three concurrent calls, joining and
\* leaving, one leave at a time.
NextCrowd ==
  \/ /\ InFlight < Cardinality(Clients)
     /\ \E c \in Clients, u \in Users, n \in Quantities : StartJoin(c, u, "p1", n, MaxCrowd)
  \/ /\ InFlight < Cardinality(Clients)
     /\ \A d \in Clients : clients[d].op # "leave"
     /\ \E c \in Clients, u \in Users : StartLeave(c, "leave", u, "p1", 0, 0)
  \/ Resume
  \/ FullResume

SpecCrowd == Init /\ [][NextCrowd]_vars

\* Two products, one operation at a time; inventory calls may reject.
NextShops ==
  \/ Tick
  \/ Calls({1}, {"u1", "u2"}, DbProducts, Quantities, MaxEntries)
  \/ Resume
  \/ PayResume
  \/ Sweep({1})
  \/ Reject({1}, {"u1", "u2"}, DbProducts, Quantities, MaxEntries)
  \/ SweepReject

SpecShops == Init /\ [][NextShops]_vars

\* Nobody leaves or pays: two users join one product, and the sweep is the
\* only thing that removes entries.  The clock runs one hold duration longer,
\* so that every entry created up to MaxClock expires.
NextLive ==
  \/ Advance(MaxClock + 1)
  \/ /\ InFlight < Cardinality(Sweeps)
     /\ \E c \in {1, 2}, u \in {"u1", "u2"}, n \in Quantities :
           StartJoin(c, u, "p1", n, MaxEntries)
  \/ \E c \in Clients : JoinCheck(c)
  \/ \E c \in Clients : JoinReserveDb(c)
  \/ \E c \in Clients : JoinReturn(c)
  \/ Sweep(Sweeps)

\* Time passes, the inventory answers every call, every operation resumes
\* after its await, and the timers of lines 349 and 491 keep firing.
FairLive ==
  /\ WF_vars(Advance(MaxClock + 1))
  /\ \A c \in Clients :
       WF_vars(JoinCheck(c)) /\ WF_vars(JoinReserveDb(c)) /\ WF_vars(JoinReturn(c))
  /\ \A s \in Sweeps :
       WF_vars(SweepReleaseDb(s)) /\ WF_vars(SweepReleased(s)) /\ WF_vars(SweepChecked(s))
  /\ SF_vars(InFlight < Cardinality(Sweeps) /\ \E s \in Sweeps : StartSweep(s))

SpecLive == Init /\ [][NextLive]_vars /\ FairLive

\* Three users line up for one product that starts with stock LineStock, so
\* that its queue has room for three items: one operation at a time, every
\* inventory call succeeds.
NextLine ==
  \/ Tick
  \/ Calls({1}, Users, {"p1"}, LineQuantities, MaxCrowd)
  \/ InFlight = 0 /\ Reads(Users, {"p1"})
  \/ Resume
  \/ PayResume
  \/ Sweep({1})

SpecLine == Start({LineStock}) /\ [][NextLine]_vars

\* The checkout endpoint is the way into the queue: two users check out one
\* product (or the id of no product) whose stock starts at the threshold or
\* just above it, with two requests at a time, and leave; every inventory call
\* succeeds, the transaction record and the payment gateway may fail.
NextDoor ==
  \/ /\ InFlight < 2
     /\ \E c \in {1, 2}, u \in {"u1", "u2"}, p \in {"p1", "px"}, n \in DoorQuantities :
           StartCheckout(c, u, p, n, MaxEntries)
  \/ \E c \in Clients : CheckoutShould(c)
  \/ \E c \in Clients : CheckoutRoute(c)
  \/ \E c \in Clients : CheckoutRecorded(c)
  \/ \E c \in Clients : CheckoutInitiated(c)
  \/ \E c \in Clients : CheckoutFailed(c)
  \/ \E c \in Clients : RegularInitiated(c)
  \/ \E c \in Clients : RegularRecorded(c)
  \/ \E c \in Clients : RegularFailed(c)
  \/ /\ InFlight < 2
     /\ \E c \in {1, 2}, u \in {"u1", "u2"} : StartLeave(c, "leave", u, "p1", 0, 0)
  \/ /\ InFlight < 2
     /\ \E c \in {1, 2}, p \in {"p1", "px"} : StartShould(c, p)
  \/ \E c \in Clients : ShouldReturn(c)
  \/ Resume

SpecDoor == Start(DoorStocks) /\ [][NextDoor]_vars

\* ------------------------------------------------------------------ claims
AllIdle ==
  /\ \A c \in Clients : clients[c].op = "idle"
  /\ \A s \in Sweeps : sweeps[s].pc = "idle"

RECURSIVE SumQuantity(_)
SumQuantity(items) ==
  IF items = <<>> THEN 0 ELSE Head(items).quantity + SumQuantity(Tail(items))

\* The sum of the quantities of the pending entries of productId.
Pending(productId) == SumQuantity(Items(qobj, pq, productId))

\* C1: whatever the interleaving of joins on a product, its stock is never
\* negative and its pending entries never hold more than the stock the
\* product had.
C1_CheckAndReserveAtomic ==
  \A p \in DbProducts : stock[p] >= 0 /\ Pending(p) <= stock0[p]

\* Two joins in flight have both read the stock of the same product before
\* either has reserved.
C1_BothRead ==
  \E c, d \in Clients :
    /\ c # d
    /\ clients[c].pc = "found" /\ clients[d].pc = "found"
    /\ clients[c].productId = clients[d].productId
    /\ clients[c].stock = stock0[clients[c].productId]
    /\ clients[d].stock = stock0[clients[d].productId]

\* C2: whenever no operation is in flight, pending quantity plus available
\* stock equals the initial stock minus what payments have committed.
C2_Conservation ==
  AllIdle => \A p \in DbProducts : Pending(p) + stock[p] = stock0[p] - committed[p]

\* A payment that removed an entry has completed and nothing is in flight.
C2_Paid ==
  /\ AllIdle
  /\ ret.op = "pay" /\ ret.item.id # 0
  /\ committed[ret.item.productId] > 0

\* The one entry ever created was reserved and then removed by a payment for
\* its quantity, which has just completed with nothing else in flight.
C3_JoinedThenPaid ==
  /\ AllIdle
  /\ failures = 0
  /\ nextId = 2
  /\ reserved[1]
  /\ removals[1] = <<"pay">>
  /\ ret.op = "pay" /\ ret.item.id = 1
  /\ emitted # <<>> /\ emitted[Len(emitted)].quantity = ret.item.quantity

\* C3: after a join and the payment for it, the entry is gone and the stock is
\* the stock before the join minus the entry's quantity.
C3_PaymentDeducts ==
  C3_JoinedThenPaid =>
    /\ ~HasItem(qobj, pq, ret.item.userId, ret.item.productId)
    /\ stock[ret.item.productId] = stock0[ret.item.productId] - ret.item.quantity

\* C4: no queue ever holds more entries than its maxQueueSize.
C4_Capacity ==
  \A q \in QIds : Len(qobj[q].items) <= qobj[q].maxQueueSize

\* A join has just been turned away from a queue that two concurrent joins
\* had filled.
C4_TurnedAway ==
  /\ ret.op = "join" /\ ret.result = "QueueFull"
  /\ Len(Items(qobj, pq, "p1")) = qobj[MapGet(pq, "p1")].maxQueueSize
  /\ \E c \in Clients : clients[c].op = "join" /\ clients[c].pc \in {"reserve", "reserved"}

\* C5: every entry is spliced out of its queue by at most one operation, and
\* releaseReservedStock is called at most once for it.
C5_RemovedOnce ==
  \A i \in EntryIds : Len(removals[i]) <= 1 /\ releaseCalls[i] <= 1

\* A tick in flight still has on its list of expired items an entry that a
\* leave, a payment or an overlapping tick has removed meanwhile.
C5_Raced ==
  \E s \in Sweeps : \E k \in 1 .. Len(sweeps[s].rest) :
    Len(removals[sweeps[s].rest[k].id]) = 1

\* C6: a queue holds at most one entry per user, and a join by a user who has
\* an entry in the product's queue, and for whom the stock suffices, returns
\* AlreadyQueued and adds nothing.
C6_OneEntryPerUser ==
  /\ \A q \in QIds : \A i, j \in 1 .. Len(qobj[q].items) :
       qobj[q].items[i].userId = qobj[q].items[j].userId => i = j
  /\ (ret.op = "join" /\ ret.had /\ ret.result # "InsufficientStock")
       => ret.result = "AlreadyQueued" /\ ret.item = NoItem

\* A user's second join is turned away while their first join is still in
\* flight: the only entry of the queue is the one the first join pushed.
C6_Interleaved ==
  /\ ret.op = "join" /\ ret.result = "AlreadyQueued" /\ ret.had
  /\ Len(Items(qobj, pq, "p1")) = 1
  /\ \E c \in Clients :
       /\ clients[c].op = "join" /\ clients[c].pc \in {"reserve", "reserved"}
       /\ clients[c].item = Items(qobj, pq, "p1")[1]

\* C7: when nobody leaves or pays, every entry created while the clock is at
\* most MaxClock hold durations is eventually removed by a tick of the sweep
\* and its quantity released to the stock.
C7_EveryEntryExpires ==
  \A i \in 1 .. MaxEntries :
    (i < nextId /\ now <= MaxClock * ClockStep)
      ~> (removals[i] = <<"sweep">> /\ released[i] = 1)

\* A tick of the sweep has removed an expired entry, released its quantity and
\* emitted its queue.timeout.
C7_Expired ==
  \E i \in 1 .. MaxEntries :
    removals[i] = <<"sweep">> /\ released[i] = 1 /\ timeouts[i] = 1

\* The tick s has the entry i in hand, between its splice and its
\* queue.timeout.
InHand(s, i) == sweeps[s].pc \in {"release", "released"} /\ sweeps[s].cur.id = i

\* C8: a tick removes only entries that have expired by its `now`; every
\* entry a tick removed has its quantity released and exactly one
\* queue.timeout emitted once the tick is done with it; and a tick that has
\* returned leaves no entry behind that had expired by its `now`.
C8_SweepRemovesExpired ==
  /\ \A s \in Sweeps : sweeps[s].cur.id # 0 => sweeps[s].cur.expiresAt <= sweeps[s].now
  /\ \A i \in EntryIds :
       (removals[i] = <<"sweep">> /\ \A s \in Sweeps : ~InHand(s, i))
         => released[i] = 1 /\ timeouts[i] = 1
  /\ ret.op = "sweep" =>
       \A p \in DbProducts : \A k \in 1 .. Len(Items(qobj, pq, p)) :
         ~Expired(Items(qobj, pq, p)[k], ret.now)

\* A tick has removed an entry and is no longer in flight.
C8_Swept ==
  /\ \A s \in Sweeps : sweeps[s].pc = "idle"
  /\ \E i \in EntryIds : removals[i] = <<"sweep">>

\* The release call of a tick has just rejected.
C9_ReleaseRejected ==
  /\ ret.op = "sweep" /\ ret.result = "failed"
  /\ releaseCalls[ret.item.id] > released[ret.item.id]

\* C9: when the release call rejects while a tick is at one product, the tick
\* leaves no expired entry behind in the queue of any other product.
C9_OtherProductsSwept ==
  C9_ReleaseRejected =>
    \A p \in DbProducts \ {ret.item.productId} :
      \A k \in 1 .. Len(Items(qobj, pq, p)) : ~Expired(Items(qobj, pq, p)[k], ret.now)

\* C10: in every state, userQueues holds productId for userId exactly when the
\* product's queue holds an entry of userId, and no user maps to an empty set.
C10_IndexIsProjection ==
  /\ \A u \in Users : \A p \in DbProducts :
       isUserInQueue(uq, u, p) <=> HasItem(qobj, pq, u, p)
  /\ \A u \in Users : uq[u].has => uq[u].set # {}

\* An operation has spliced an entry out of its queue and awaits the release.
C10_Removing ==
  \/ \E c \in Clients : clients[c].pc = "release"
  \/ \E s \in Sweeps : sweeps[s].pc = "release"

\* The records of productQueues that hold no entry.
EmptyRecords == {i \in 1 .. Len(pq) : qobj[pq[i][2]].items = <<>>}

\* C11: once a join, a leave or a payment has completed (no inventory call
\* having rejected), productQueues holds no record without entries.
C11_NoEmptyRecord ==
  (failures = 0 /\ ret.op \in {"join", "leave", "pay"}) => EmptyRecords = {}

\* A leave has removed the last entry of a queue and returned true.
C11_LeftLast ==
  /\ failures = 0
  /\ ret.op = "leave" /\ ret.result = "true" /\ ret.item.id # 0
  /\ Items(qobj, pq, ret.item.productId) = <<>>

\* The join c runs its checks in this step (lines 128-184).
Checks(c) == clients[c].pc = "found" /\ clients'[c].pc # "found"

\* The join c finds the queue of its product at maxQueueSize (lines 149-154);
\* without a record it looks at the empty queue it creates from the stock it
\* read.
FindsFull(c) ==
  IF MapGet(pq, clients[c].productId) = 0
  THEN 0 >= Min(DEFAULT_QUEUE_SIZE, 2 * clients[c].stock)
  ELSE Len(Items(qobj, pq, clients[c].productId))
         >= qobj[MapGet(pq, clients[c].productId)].maxQueueSize

\* The join c resumes after markProductUnavailable in this step (line 155).
TurnedAway(c) == clients[c].pc = "full" /\ clients'[c].pc # "full"

\* What the checks of the join c have decided in this step: the result they
\* return, QueueFull when the join goes on to line 155, "none" when it goes
\* on to reserve.
Decided(c) == IF clients'[c].pc = "full" THEN "QueueFull" ELSE ret'.result

\* The join c creates the queue of its product in this step.
Creates(c) ==
  /\ Checks(c)
  /\ MapGet(pq, clients[c].productId) = 0
  /\ MapGet(pq', clients[c].productId) # 0

\* C12: a queue's maxQueueSize is min(10, 2 x the stock its creating join
\* read) and never changes while the queue object lives; a join that finds the
\* queue at maxQueueSize pushes nothing, and when it passes the stock and
\* duplicate checks it goes on to line 155 and returns QueueFull from there.
C12_MaxSizeFixed ==
  [][/\ \A c \in Clients : Creates(c) =>
          qobj'[MapGet(pq', clients[c].productId)].maxQueueSize
            = Min(DEFAULT_QUEUE_SIZE, 2 * clients[c].stock)
     /\ \A q \in QIds : (qobj[q] # FreeQueue /\ qobj'[q] # FreeQueue) =>
          qobj'[q].maxQueueSize = qobj[q].maxQueueSize
     /\ \A c \in Clients : (Checks(c) /\ FindsFull(c)) =>
          /\ nextId' = nextId
          /\ MapGet(pq, clients[c].productId) # 0 =>
               qobj'[MapGet(pq, clients[c].productId)].items
                 = qobj[MapGet(pq, clients[c].productId)].items
          /\ (/\ clients[c].stock >= clients[c].quantity
              /\ ~isUserInQueue(uq, clients[c].userId, clients[c].productId))
               => clients'[c].pc = "full"
     /\ \A c \in Clients : TurnedAway(c) =>
          /\ ret'.op = "join" /\ ret'.result = "QueueFull"
          /\ UNCHANGED <<nextId, pq, uq, stock>>]_vars

\* A join of a user without an entry has been turned away from p1's queue,
\* which holds as many entries as twice the stock its creating join read.
C12_FullAtCreationSize ==
  /\ ret.op = "join" /\ ret.result = "QueueFull" /\ ~ret.had
  /\ qobj[MapGet(pq, "p1")].maxQueueSize = Min(DEFAULT_QUEUE_SIZE, 2 * stock0["p1"])
  /\ Len(Items(qobj, pq, "p1")) = Min(DEFAULT_QUEUE_SIZE, 2 * stock0["p1"])

\* What the checks of lines 135-160 must return to the join c: the result of
\* the first check that fails, "none" when all pass.
FirstFailure(c) ==
  IF clients[c].stock < clients[c].quantity THEN "InsufficientStock"
  ELSE IF isUserInQueue(uq, clients[c].userId, clients[c].productId) THEN "AlreadyQueued"
  ELSE IF FindsFull(c) THEN "QueueFull"
  ELSE "none"

\* C13: the checks of a join decide on the result of the first failing check
\* in the order product exists, stock suffices, user not queued, queue not
\* full, and the join returns what they decided (QueueFull once it resumes
\* after line 155); a join on the id of no product returns NotFound whatever
\* the state.
C13_CheckOrder ==
  [][/\ \A c \in Clients : Checks(c) =>
          /\ clients[c].productId \in DbProducts
          /\ Decided(c) = FirstFailure(c)
     /\ ret'.result = "NotFound" => (ret'.op = "join" /\ UNCHANGED <<mem, clients, stock>>)
     /\ ret'.result \in {"InsufficientStock", "AlreadyQueued"}
          => \E c \in Clients : Checks(c)
     /\ ret'.result = "QueueFull" => \E c \in Clients : TurnedAway(c)]_vars

\* A user with an entry in p1's full queue has joined again and been turned
\* away as a duplicate.
C13_DuplicateOnFull ==
  /\ ret.op = "join" /\ ret.result = "AlreadyQueued" /\ ret.had
  /\ MapGet(pq, "p1") # 0
  /\ Len(Items(qobj, pq, "p1")) >= qobj[MapGet(pq, "p1")].maxQueueSize

\* The queue.position.updated events among `events` that are for the entry id.
PositionUpdates(events, id) ==
  {j \in 1 .. Len(events) :
     events[j].type = "queue.position.updated" /\ events[j].queueId = id}

\* C14: a leave that has removed an entry and left others behind returns only
\* after the step of its notifications, and in that step, when the queue holds the entries that
\* remained after the removal, each of them receives exactly one
\* queue.position.updated, with its index in the queue after the removal (its
\* previous position minus 1 if it came after the removed entry).
C14_PositionsAfterLeave ==
  [][\A c \in Clients : (clients[c].op = "leave" /\ clients[c].item.id # 0) =>
       /\ (clients'[c].op = "idle" /\ clients[c].after # <<>>) => clients[c].pc = "check"
       /\ (/\ clients[c].pc = "released" /\ clients'[c].pc # "released"
           /\ Items(qobj, pq, clients[c].productId) = clients[c].after)
            => \A k \in 1 .. Len(clients[c].after) :
                 /\ Cardinality(PositionUpdates(emitted', clients[c].after[k].id)) = 1
                 /\ \A j \in PositionUpdates(emitted', clients[c].after[k].id) :
                      emitted'[j].position = k]_vars

\* A leave has returned true after removing the first of two entries, and the
\* other entry is still in the queue.
C14_LeftFirst ==
  /\ ret.op = "leave" /\ ret.result = "true" /\ ret.item.id # 0
  /\ Len(ret.after) = 1 /\ ret.after[1].id > ret.item.id
  /\ Items(qobj, pq, ret.item.productId) = ret.after

\* C15: a join that returns success returns, and emits in queue.joined, the
\* index (from 1) that its entry has in the product's queue at that moment.
C15_PositionIsIndex ==
  (ret.op = "join" /\ ret.result = "Joined") =>
    \A k \in 1 .. Len(Items(qobj, pq, ret.item.productId)) :
      Items(qobj, pq, ret.item.productId)[k].id = ret.item.id =>
        /\ ret.position = k
        /\ emitted[1].type = "queue.joined" /\ emitted[1].position = k

\* A join has returned success while its entry is the first of two in the
\* queue: another join pushed during its await of reserveStock.
C15_Overtaken ==
  /\ ret.op = "join" /\ ret.result = "Joined"
  /\ Len(Items(qobj, pq, ret.item.productId)) = 2
  /\ Items(qobj, pq, ret.item.productId)[1].id = ret.item.id

\* The queue of productId holds no item of userId that a leave with this
\* queueId would take (queueId 0: no queueId given).
LeaveMisses(userId, productId, queueId) ==
  \A k \in 1 .. Len(Items(qobj, pq, productId)) :
    \/ Items(qobj, pq, productId)[k].userId # userId
    \/ queueId # 0 /\ Items(qobj, pq, productId)[k].id # queueId

\* C16: a leave that finds no queue for the product, no entry of the user in
\* it, or an entry whose id is not the queueId given, returns false at once
\* and changes neither the queues, the index, the stock nor the calls in
\* flight, and emits nothing.
C16_MissChangesNothing ==
  [][(ret'.asked.op = "leave"
        /\ LeaveMisses(ret'.asked.userId, ret'.asked.productId, ret'.asked.queueId))
       => /\ ret'.op = "leave" /\ ret'.result = "false"
          /\ emitted' = <<>>
          /\ UNCHANGED <<mem, stock, clients>>]_vars

\* A leave has returned false for a user whose entry in the queue has another
\* id than the one given.
C16_WrongQueueId ==
  /\ ret.asked.op = "leave" /\ ret.result = "false" /\ ret.asked.queueId # 0
  /\ \E k \in 1 .. Len(Items(qobj, pq, ret.asked.productId)) :
       Items(qobj, pq, ret.asked.productId)[k].userId = ret.asked.userId

\* The index of the item with this id in items, 0 if there is none.
IndexOfId(items, id) == FindIndex([i \in 1 .. Len(items) |-> items[i].id = id])

\* C17: in every ProductQueue a step leaves the items that stay in their
\* order and puts an item that comes in behind all the items that were there.
C17_InsertionOrder ==
  [][\A q \in QIds :
       \A i, j \in 1 .. Len(qobj'[q].items) :
         i < j =>
           LET a == IndexOfId(qobj[q].items, qobj'[q].items[i].id)
               b == IndexOfId(qobj[q].items, qobj'[q].items[j].id)
           IN  /\ (a # 0 /\ b # 0) => a < b
               /\ ~(a = 0 /\ b # 0)]_vars

\* A leave has taken the second of three items: the first and the third stay.
C17_LeftMiddle ==
  /\ ret.op = "leave" /\ ret.result = "true"
  /\ Len(ret.after) = 2
  /\ ret.after[1].id < ret.item.id /\ ret.item.id < ret.after[2].id
  /\ Items(qobj, pq, ret.item.productId) = ret.after

\* C18: the estimated wait grows with every position from 1 on, and what a
\* join or a status read returns as the wait is its position times two
\* minutes, whatever the quantities of the items in the queue.
C18_WaitGrowsWithPosition ==
  /\ \A p \in 1 .. DEFAULT_QUEUE_SIZE :
       calculateEstimatedWaitTime(p + 1) > calculateEstimatedWaitTime(p)
  /\ (ret.op \in {"join", "status"} /\ ret.position > 0) =>
       ret.wait = ret.position * 120000

\* A status read has returned the wait of the second of two items of
\* different quantities.
C18_TwoQuantities ==
  /\ ret.op = "status" /\ ret.position = 2
  /\ Len(Items(qobj, pq, ret.asked.productId)) = 2
  /\ Items(qobj, pq, ret.asked.productId)[1].quantity
       # Items(qobj, pq, ret.asked.productId)[2].quantity

\* C19: shouldActivateQueue returns what its read of line 342 found, which is
\* true exactly for a product that exists and whose stock, when it is read, is
\* at most 5; a checkout goes on to joinQueue exactly when shouldActivateQueue
\* was true for it, and no join starts otherwise.
C19_QueueAtThreshold ==
  [][/\ ret'.asked.op = "should" =>
          \E c \in Clients : clients[c].op = "should" /\ clients'[c].op = "idle"
     /\ \A c \in Clients :
          /\ (clients[c].op # "should" /\ clients'[c].op = "should") =>
               (clients'[c].should
                  <=> (clients'[c].productId \in DbProducts
                         /\ stock[clients'[c].productId] <= 5))
          /\ (clients[c].op = "should" /\ clients'[c].op # "should") =>
               /\ ret'.asked.op = "should"
               /\ ret'.asked.productId = clients[c].productId
               /\ ret'.result = "true" <=> clients[c].should
          /\ (clients[c].pc = "product" /\ clients'[c].pc = "route") =>
               (clients'[c].should <=> stock[clients[c].productId] <= 5)
          /\ (clients[c].pc = "route" /\ clients'[c].pc # "route") =>
               (clients'[c].op = "join" <=> clients[c].should)
          /\ (clients[c].op # "join" /\ clients'[c].op = "join") =>
               (clients[c].pc = "route" /\ clients[c].should)]_vars

\* A checkout of a product whose stock is exactly 5 has gone on to joinQueue.
C19_JoinedAtThreshold ==
  \E c \in Clients :
    clients[c].op = "join" /\ clients[c].pc = "found" /\ clients[c].stock = 5

\* C20: getQueueStatus and getUserQueues change nothing and emit nothing;
\* getQueueStatus reports inQueue exactly when the product's queue holds an
\* item of the user, with that item's index (from 1) as the position and that
\* item's expiresAt.
C20_ReadsChangeNothing ==
  [][ret'.asked.op \in {"status", "queues"} =>
       /\ emitted' = <<>>
       /\ UNCHANGED <<stock, now, mem, clients, sweeps, nextId, failures, hist>>
       /\ ret'.asked.op = "status" =>
            LET items == Items(qobj, pq, ret'.asked.productId)
                mine == {k \in 1 .. Len(items) : items[k].userId = ret'.asked.userId}
            IN  /\ ret'.result = "true" <=> mine # {}
                /\ \A k \in mine :
                     ret'.position = k /\ ret'.expiresAt = items[k].expiresAt]_vars

\* A status read has reported the second position.
C20_SecondInLine ==
  ret.asked.op = "status" /\ ret.result = "true" /\ ret.position = 2

\* C21: when a join has returned a failure, the item it made is in no queue
\* and the index does not list the product for the user.
C21_FailedJoinAddsNothing ==
  (ret.op = "join" /\ ret.result # "Joined" /\ ret.item.id # 0) =>
    /\ \A k \in 1 .. Len(Items(qobj, pq, ret.item.productId)) :
         Items(qobj, pq, ret.item.productId)[k].id # ret.item.id
    /\ ~isUserInQueue(uq, ret.item.userId, ret.item.productId)

\* A join has returned the generic failure after reserveStock rejected.
C21_ReserveRejected ==
  /\ ret.op = "join" /\ ret.result = "Failed" /\ ret.item.id # 0
  /\ ~reserved[ret.item.id]
  /\ stock = stock0

\* C22: a payment that returns true or emits payment.processed has removed an
\* item of the user from the product's queue.
C22_PaidOnlyIfPending ==
  (ret.op = "pay"
     /\ (ret.result = "true"
           \/ \E j \in 1 .. Len(emitted) : emitted[j].type = "payment.processed"))
    => ret.item.id # 0

\* A payment has returned for a user who has no item in the product's queue.
C22_PaidWithoutEntry ==
  /\ ret.op = "pay" /\ ret.asked.op = "pay" /\ ret.item.id = 0
  /\ ~HasItem(qobj, pq, ret.asked.userId, ret.asked.productId)

\* The join that pushed the item i has returned success.
Joined(i) ==
  /\ i < nextId /\ reserved[i]
  /\ \A c \in Clients : clients[c].op = "join" => clients[c].item.id # i

\* C23: every item that a successful join pushed and that no leave, payment
\* or tick has removed is in the queue registered for a product.
C23_NoEntryLost ==
  \A i \in EntryIds :
    (Joined(i) /\ removals[i] = <<>>) =>
      \E p \in DbProducts : \E k \in 1 .. Len(Items(qobj, pq, p)) :
        Items(qobj, pq, p)[k].id = i

\* A tick holds, across an await, a queue other than the one that is
\* registered for its product by now.
C23_StaleQueueHeld ==
  \E s \in Sweeps :
    /\ sweeps[s].q # 0
    /\ MapGet(pq, sweeps[s].productId) # 0
    /\ MapGet(pq, sweeps[s].productId) # sweeps[s].q

\* C24: a join returns AlreadyQueued only when the product's queue held an
\* item of the user at the moment of the check.
C24_DuplicateOnlyIfQueued ==
  (ret.op = "join" /\ ret.result = "AlreadyQueued") => ret.had

\* The index lists a product for a user whose item a leave, payment or tick
\* has taken out of the product's queue.
C24_StaleIndex ==
  \E u \in Users : \E p \in DbProducts :
    /\ isUserInQueue(uq, u, p)
    /\ ~HasItem(qobj, pq, u, p)
    /\ \E i \in EntryIds : removals[i] # <<>>

\* C25: when a queued checkout has returned an error after its join
\* succeeded, the item of that join is no longer in the queue and its quantity
\* has been released to the stock.
C25_FailedCheckoutReleases ==
  (ret.op = "checkout" /\ ret.result = "Failed") =>
    /\ \A k \in 1 .. Len(Items(qobj, pq, ret.item.productId)) :
         Items(qobj, pq, ret.item.productId)[k].id # ret.item.id
    /\ released[ret.item.id] >= 1

\* A queued checkout has returned an error after its join pushed an item and
\* reserved its quantity.
C25_FailedAfterJoin ==
  /\ ret.op = "checkout" /\ ret.result = "Failed"
  /\ ret.item.id # 0 /\ reserved[ret.item.id]

\* C26: with one operation at a time and queues created at a stock of at
\* most 5, no registered queue holds maxQueueSize items and no join returns
\* QueueFull.
C26_NeverFullBelowThreshold ==
  (\A p \in DbProducts : stock0[p] <= LOW_STOCK_THRESHOLD) =>
    /\ \A i \in 1 .. Len(pq) :
         Len(qobj[pq[i][2]].items) < qobj[pq[i][2]].maxQueueSize
    /\ ~(ret.op = "join" /\ ret.result = "QueueFull")

\* A join has pushed an item whose quantity reserveStock did not take from
\* the stock, and the queue holds another item as well.
C26_UnreservedEntry ==
  \E i \in 1 .. Len(pq) : \E k \in 1 .. Len(qobj[pq[i][2]].items) :
    /\ Len(qobj[pq[i][2]].items) >= 2
    /\ ~reserved[qobj[pq[i][2]].items[k].id]
    /\ AllIdle

====
